---- MODULE Spec2Model ----
(***************************************************************************)
(* Model of the mita scrollytelling visualisation: the UnifiedViz React    *)
(* component (three animation loops, the outcome effect, the main render   *)
(* effect and the d3 scene it maintains), the morph renderers and the data *)
(* utilities.                                                              *)
(*                                                                         *)
(* Units.  Continuous values (morph progress, zoom, border opacity, morphT)*)
(* are fixed-point numbers in tenths: 10 is 1.0, 3 is 0.3.  Pixel          *)
(* coordinates are in tenths of a pixel.  Outcome values are in units of   *)
(* 1/10000 (0.001 is 10, the stunting rate 0.12 is 1200).  A nullable      *)
(* number is the empty sequence (null) or a one-element sequence.          *)
(***************************************************************************)
EXTENDS Integers, Sequences, FiniteSets, TLC

VARIABLES
    mounted,         \* the component is mounted (svgRef.current is set)
    props,           \* props handed to UnifiedViz by ScrollyStory
    state,           \* useState values of UnifiedViz
    pendingEffects,  \* effects of the latest React render that have not run yet
    refs,            \* useRef values of UnifiedViz
    rafQueue,        \* callbacks registered with requestAnimationFrame
    stepsEntered,    \* number of steps the reader has scrolled into
    mergedData,      \* useMemo(() => mergeData(), [])
    allScatterData,  \* useMemo(() => getAllScatterData(mergedData), [mergedData])
    scene,           \* the elements below the root svg
    pass,            \* what the latest run of the main render effect did
    tooltip,         \* useState<TooltipData | null>
    pointerEvent,    \* the mousemove that put the pointer over a marker, or
                     \* none when the pointer has left it; early: the marker
                     \* was drawn by a morphing pass with morphT <= 0.8
    probe            \* a pure function under test: its input and its results

vars == <<mounted, props, state, pendingEffects, refs, rafQueue, stepsEntered,
          mergedData, allScatterData, scene, pass, tooltip, pointerEvent, probe>>

----------------------------------------------------------------------------
(* Bounds of the model *)

\* number of display-refresh ticks one animation lasts (duration / frame time)
TicksPerAnimation == 3

\* number of steps the reader scrolls into
MaxStepsEntered == 2

\* the distances handed to the distance scale range over -MaxDistance..MaxDistance
MaxDistance == 120

----------------------------------------------------------------------------
(* Nullable numbers *)

Null == <<>>
Some(v) == <<v>>
Get(o) == o[1]

Min2(a, b) == IF a < b THEN a ELSE b
Max2(a, b) == IF a > b THEN a ELSE b

----------------------------------------------------------------------------
(* dataUtils: merging and filtering the district tables *)

Outcomes == {"stunting", "consumption", "roads"}

\* one record of districtPolygons.json
Polygon(u, m) == [ubigeo |-> u, mita |-> m]

\* one record of mitaData.json; all fields but ubigeo are nullable
Outcome(u, dist, inside, st, co, ro) ==
    [ubigeo |-> u, distance |-> dist, isInside |-> inside,
     stunting |-> st, consumption |-> co, roads |-> ro]

\* outcomeMap.get(ubigeo): the last record of the table with that ubigeo
OutcomeOf(data, u) ==
    LET idx == {i \in 1..Len(data) : data[i].ubigeo = u}
    IN  IF idx = {} THEN Null
        ELSE Some(data[CHOOSE i \in idx : \A j \in idx : j <= i])

\* a ?? b
Coalesce(a, b) == IF a = Null THEN b ELSE a

MergeOne(poly, data) ==
    LET o == OutcomeOf(data, poly.ubigeo)
    IN  [ubigeo      |-> poly.ubigeo,
         mita        |-> poly.mita,
         distance    |-> IF o = Null THEN Null ELSE Get(o).distance,
         isInside    |-> IF o = Null THEN poly.mita = 1
                         ELSE Get(Coalesce(Get(o).isInside, Some(poly.mita = 1))),
         consumption |-> IF o = Null THEN Null ELSE Get(o).consumption,
         stunting    |-> IF o = Null THEN Null ELSE Get(o).stunting,
         roads       |-> IF o = Null THEN Null ELSE Get(o).roads]

mergeData(polys, data) == [i \in 1..Len(polys) |-> MergeOne(polys[i], data)]

\* 0.001, the smallest stunting or consumption value that counts as present
MinPresent == 10

Abs(x) == IF x < 0 THEN -x ELSE x

\* d.isInside ? Math.abs(d.distance) : -Math.abs(d.distance)
flippedDistance_raw(d) == IF d.isInside THEN Get(d.distance) ELSE -Get(d.distance)
flippedDistance(d) ==
    IF d.isInside THEN Abs(Get(d.distance)) ELSE -Abs(Get(d.distance))

\* the predicate of filterScatterData
FilterKeeps(d, currentOutcome) ==
    LET value    == d[currentOutcome]
        minValue == IF currentOutcome = "roads" THEN 0 ELSE MinPresent
    IN  d.distance # Null /\ value # Null /\ Get(value) >= minValue

Extend(d, sx, sy, stY, coY, roY) ==
    [ubigeo |-> d.ubigeo, mita |-> d.mita, distance |-> d.distance,
     isInside |-> d.isInside, consumption |-> d.consumption,
     stunting |-> d.stunting, roads |-> d.roads,
     scatterX |-> sx, scatterY |-> sy,
     stuntingY |-> stY, consumptionY |-> coY, roadsY |-> roY]

FilterPoint_unscaled(d, currentOutcome) ==
    Extend(d, flippedDistance(d), Get(d[currentOutcome]),
           IF d.stunting # Null THEN Some(Get(d.stunting) * 100) ELSE Null,
           d.consumption, d.roads)
FilterPoint(d, currentOutcome) ==
    LET rawValue == Get(d[currentOutcome])
        value    == IF currentOutcome = "stunting" THEN rawValue * 100 ELSE rawValue
    IN  Extend(d, flippedDistance(d), value,
               IF d.stunting # Null THEN Some(Get(d.stunting) * 100) ELSE Null,
               d.consumption, d.roads)

filterScatterData(merged, currentOutcome) ==
    LET kept == SelectSeq(merged, LAMBDA d : FilterKeeps(d, currentOutcome))
    IN  [i \in 1..Len(kept) |-> FilterPoint(kept[i], currentOutcome)]

\* the predicate of getAllScatterData
AllKeeps_roadsPositive(d) ==
    /\ d.distance # Null
    /\ \/ d.stunting # Null /\ Get(d.stunting) > 0
       \/ d.consumption # Null /\ Get(d.consumption) > 0
       \/ d.roads # Null /\ Get(d.roads) > 0
AllKeeps(d) ==
    /\ d.distance # Null
    /\ \/ d.stunting # Null /\ Get(d.stunting) > 0
       \/ d.consumption # Null /\ Get(d.consumption) > 0
       \/ d.roads # Null /\ Get(d.roads) >= 0

AllPoint(d) ==
    Extend(d, flippedDistance(d), 0,
           IF d.stunting # Null /\ Get(d.stunting) > 0
               THEN Some(Get(d.stunting) * 100) ELSE Null,
           IF d.consumption # Null /\ Get(d.consumption) > 0
               THEN d.consumption ELSE Null,
           IF d.roads # Null /\ Get(d.roads) >= 0 THEN d.roads ELSE Null)

getAllScatterData(merged) ==
    LET kept == SelectSeq(merged, AllKeeps)
    IN  [i \in 1..Len(kept) |-> AllPoint(kept[i])]

getOutcomeY(d, outcomeKey) ==
    CASE outcomeKey = "stunting"    -> d.stuntingY
      [] outcomeKey = "consumption" -> d.consumptionY
      [] outcomeKey = "roads"       -> d.roadsY
      [] OTHER                      -> Null

SeqRange(s) == {s[i] : i \in 1..Len(s)}
Ubigeos(s) == {s[i].ubigeo : i \in 1..Len(s)}

----------------------------------------------------------------------------
(* scaleUtils and constants *)

\* INNER_WIDTH = 700 - 60 - 30 px
innerWidth == 6100
\* 500 - 40 - 50 px
innerHeight == 4100

Clamp(lo, hi, x) == Max2(lo, Min2(hi, x))

\* d3.scaleLinear().domain([-50, 50]).range([0, innerWidth]).clamp(true)
createXScale_unclamped(w, x) == (w * (x + 50)) \div 100
createXScale_reversed(w, x) == w - (w * (Clamp(-50, 50, x) + 50)) \div 100
createXScale(w, x) == (w * (Clamp(-50, 50, x) + 50)) \div 100

\* the Y values of one outcome over the full table
OutcomeYs(all, o) ==
    {Get(getOutcomeY(all[i], o)) : i \in {j \in 1..Len(all) : getOutcomeY(all[j], o) # Null}}

SetMin(S) == CHOOSE x \in S : \A y \in S : x <= y
SetMax(S) == CHOOSE x \in S : \A y \in S : x >= y

\* createYScales(allScatterData, innerHeight)[o]: linear from the observed
\* [min, max] of the outcome onto [innerHeight, 0], not clamped
createYScale(all, h, o, v) ==
    LET ys == OutcomeYs(all, o)
    IN  IF ys = {} \/ SetMin(ys) = SetMax(ys) THEN h \div 2
        ELSE h - (h * (v - SetMin(ys))) \div (SetMax(ys) - SetMin(ys))

\* MORPH_TIMING, in tenths
MorphStart == 3
MorphEnd == 10
DotFadeStart == 3
DotFadeEnd == 6

\* OPACITY.dot, in thousandths
OpacityDot == 700

\* the thresholds of the main render effect, in tenths
MapPhaseEnd == 3
FullScatter == 10

\* easeInOutQuad of m tenths, in thousandths
easeInOutQuad(m) ==
    IF m < 5 THEN 20 * m * m ELSE 1000 - 5 * (20 - 2 * m) * (20 - 2 * m)

----------------------------------------------------------------------------
(* ScrollyStory: the narrative steps *)

StepProps(mp, oc, sd, ph, zl, hm) ==
    [morphProgress |-> mp, outcome |-> oc, showDistricts |-> sd,
     scatterPhase |-> ph, zoomLevel |-> zl, highlightMode |-> hm]

mainSteps ==
    << StepProps(0,  "stunting",    FALSE, "dots",         "peru", "mita-only"),
       StepProps(0,  "stunting",    FALSE, "dots",         "mita", "none"),
       StepProps(0,  "stunting",    TRUE,  "dots",         "mita", "none"),
       StepProps(0,  "stunting",    TRUE,  "dots",         "mita", "boundary"),
       StepProps(10, "stunting",    TRUE,  "dots",         "mita", "none"),
       StepProps(10, "stunting",    TRUE,  "dots",         "mita", "none"),
       StepProps(10, "stunting",    TRUE,  "ols",          "mita", "none"),
       StepProps(10, "stunting",    TRUE,  "naive-effect", "mita", "none"),
       StepProps(10, "stunting",    TRUE,  "effect",       "mita", "none"),
       StepProps(10, "consumption", TRUE,  "effect",       "mita", "none"),
       StepProps(10, "roads",       TRUE,  "effect",       "mita", "none"),
       StepProps(10, "roads",       TRUE,  "effect",       "mita", "none") >>

----------------------------------------------------------------------------
(* UnifiedViz: animation loops *)

LoopSet == {"morph", "zoom", "border"}

\* the useState cell a loop writes
StateOf(l) ==
    CASE l = "morph"  -> "currentProgress"
      [] l = "zoom"   -> "currentZoom"
      [] l = "border" -> "borderOpacity"

\* the useRef cell holding the loop's requestAnimationFrame handle
RefOf(l) ==
    CASE l = "morph"  -> "animationRef"
      [] l = "zoom"   -> "zoomAnimationRef"
      [] l = "border" -> "borderAnimationRef"

\* the target value of a loop under props p
TargetOf(l, p) ==
    CASE l = "morph"  -> p.morphProgress
      [] l = "zoom"   -> IF p.zoomLevel = "peru" THEN 0 ELSE 10
      [] l = "border" -> IF p.showDistricts THEN 10 ELSE 0

\* useState initialisers
InitialState(p) ==
    [currentProgress |-> p.morphProgress,
     currentOutcome  |-> p.outcome,
     currentZoom     |-> IF p.zoomLevel = "peru" THEN 0 ELSE 10,
     borderOpacity   |-> IF p.showDistricts THEN 10 ELSE 0]

\* useRef initialisers; 0 is the null handle
InitialRefs(p) ==
    [animationRef        |-> 0,
     zoomAnimationRef    |-> 0,
     borderAnimationRef  |-> 0,
     prevScatterPhaseRef |-> p.scatterPhase,
     prevOutcomeRef      |-> p.outcome]

\* requestAnimationFrame returns a handle that is not in use
Handles(q) == {q[i].handle : i \in 1..Len(q)}
LiveHandles(q, r) ==
    Handles(q) \cup {r.animationRef, r.zoomAnimationRef, r.borderAnimationRef}
FreshHandle(q, r) ==
    CHOOSE h \in 1..(Cardinality(LiveHandles(q, r)) + 1) :
        /\ h \notin LiveHandles(q, r)
        /\ \A k \in 1..(h - 1) : k \in LiveHandles(q, r)

\* a handle is an opaque token: only its equality with other handles is ever
\* observed.  Renumber keeps the tokens of a queue and refs numbered in order
\* of first appearance (queue order, then the three refs).
HandleSeq(q, r) ==
    [i \in 1..Len(q) |-> q[i].handle]
        \o <<r.animationRef, r.zoomAnimationRef, r.borderAnimationRef>>
HandleRank(s, h) ==
    IF h = 0 THEN 0
    ELSE LET first == CHOOSE i \in 1..Len(s) :
                          s[i] = h /\ \A j \in 1..(i - 1) : s[j] # h
         IN  Cardinality({s[j] : j \in 1..first} \ {0})
Renumber(acc) ==
    LET s == HandleSeq(acc.queue, acc.refs)
    IN  [acc EXCEPT
            !.queue = [i \in 1..Len(acc.queue) |->
                          [acc.queue[i] EXCEPT !.handle = HandleRank(s, @)]],
            !.refs  = [acc.refs EXCEPT
                          !.animationRef = HandleRank(s, @),
                          !.zoomAnimationRef = HandleRank(s, @),
                          !.borderAnimationRef = HandleRank(s, @)]]

cancelAnimationFrame(q, h) == SelectSeq(q, LAMBDA c : c.handle # h)

\* if (ref.current) cancelAnimationFrame(ref.current)
CancelIfSet_skip(q, h) == q
CancelIfSet(q, h) == IF h # 0 THEN cancelAnimationFrame(q, h) ELSE q

\* the callback closure created by one run of an animation effect
Callback(h, l, start, target) ==
    [handle |-> h, loop |-> l, start |-> start, target |-> target, elapsed |-> 0]

EasedNum_easeIn(e, d) == 4 * e * e

\* eased fraction of the way at e ticks of d, as numerator over 2*d*d
EasedNum(e, d) ==
    IF 2 * e < d THEN 4 * e * e
                 ELSE 2 * d * d - (2 * d - 2 * e) * (2 * d - 2 * e)
EasedDen(d) == 2 * d * d

\* start + (target - start) * eased, on the fixed-point grid
Interpolate(start, target, e, d) ==
    LET ee == Min2(e, d)
    IN  start + ((target - start) * EasedNum(ee, d)) \div EasedDen(d)

\* one run of the animation effect of loop l: the cleanup of the previous
\* run, then the body.  cl is the props and state the effect closes over,
\* acc carries the state, the refs and the frame queue.
AnimationEffect(l, cl, acc) ==
    LET r0     == acc.refs
        q0     == CancelIfSet(acc.queue, r0[RefOf(l)])     \* cleanup of the previous run
        start  == cl.state[StateOf(l)]
        target == TargetOf(l, cl.props)
        q1     == CancelIfSet(q0, r0[RefOf(l)])
        h      == FreshHandle(q1, r0)
    IN  [acc EXCEPT !.refs  = [r0 EXCEPT ![RefOf(l)] = h],
                    !.queue = Append(q1, Callback(h, l, start, target))]

\* useEffect(() => setCurrentOutcome(outcome), [outcome])
OutcomeEffect(cl, acc) ==
    [acc EXCEPT !.state = [acc.state EXCEPT !.currentOutcome = cl.props.outcome]]

\* the handle stored after a tick has re-registered the callback
RefAfterReschedule_dropped(old, h) == old
RefAfterReschedule(old, h) == h

\* animate(time): one callback of the frame, run dt ticks after its loop last
\* ran.  acc carries the state, the refs and the callbacks registered for the
\* next frame; rest are the callbacks of this frame that have not run yet.
Animate(c, dt, acc, rest) ==
    LET d   == TicksPerAnimation
        e   == Min2(c.elapsed + dt, d)
        new == Interpolate(c.start, c.target, e, d)
        h   == FreshHandle(rest \o acc.queue, acc.refs)
    IN  IF e < d
        THEN [acc EXCEPT
                !.state = [acc.state EXCEPT ![StateOf(c.loop)] = new],
                !.refs  = [acc.refs EXCEPT ![RefOf(c.loop)] =
                              RefAfterReschedule(acc.refs[RefOf(c.loop)], h)],
                !.queue = Append(acc.queue, [c EXCEPT !.handle = h, !.elapsed = e])]
        ELSE [acc EXCEPT !.state = [acc.state EXCEPT ![StateOf(c.loop)] = new]]

RECURSIVE RunFrame(_, _, _)
RunFrame(q, dt, acc) ==
    IF q = <<>> THEN acc
    ELSE RunFrame(Tail(q), dt, Animate(Head(q), dt, acc, Tail(q)))

----------------------------------------------------------------------------
(* The district tables and the projection *)

districtPolygons ==
    << Polygon(1, 1), Polygon(2, 0), Polygon(3, 1), Polygon(4, 0) >>

\* the outcome tables the model is run on
DataTables ==
    { << Outcome(1, Some(25),  Some(TRUE),  Some(1200), Some(55000), Some(5000)),
         Outcome(2, Some(40),  Some(FALSE), Some(3000), Some(60000), Some(0)),
         Outcome(3, Some(-10), Some(TRUE),  Null,       Some(40000), Null) >>,
      << Outcome(1, Some(60),  Some(TRUE),  Some(5),    Null,        Some(7000)),
         Outcome(2, Some(-60), Some(FALSE), Some(2000), Some(0),     Null),
         Outcome(3, Some(0),   Null,        Some(10),   Some(5),     Some(0)),
         Outcome(4, Null,      Some(FALSE), Some(900),  Some(100),   Some(7)) >> }

\* createProjection(...)([d.centroidLon, d.centroidLat]): a point that may
\* lie outside the plot, or null
projection(u) ==
    CASE u = 1 -> Some(<<1000, 2000>>)
      [] u = 2 -> Some(<<-500, 6000>>)
      [] u = 3 -> Null
      [] OTHER -> Some(<<7000, -300>>)

\* the number of vertices of the district's polygon the projection gives a
\* coordinate for (projectedPoints.length)
projectedPoints(u) ==
    CASE u = 1 -> 4
      [] u = 2 -> 2
      [] u = 3 -> 0
      [] OTHER -> 4

----------------------------------------------------------------------------
(* The scene: the elements below the root svg *)

\* an element that is not a marker
Elem(cls, parent, translate, key, drawn) ==
    [cls |-> cls, parent |-> parent, translate |-> translate, key |-> key,
     drawn |-> drawn, id |-> 0, cx |-> 0, cy |-> 0, r |-> 0, opacity |-> 0,
     trans |-> Null, datum |-> Null, onmove |-> FALSE, onout |-> <<0, 0>>,
     given |-> <<0, 0>>]

\* a marker (circle.morph-dot)
Dot(parent, key, id, cx, cy, r, opacity, trans) ==
    [cls |-> "morph-dot", parent |-> parent, translate |-> FALSE, key |-> key,
     drawn |-> TRUE, id |-> id, cx |-> cx, cy |-> cy, r |-> r,
     opacity |-> opacity, trans |-> trans, datum |-> Null, onmove |-> FALSE,
     onout |-> <<0, 0>>, given |-> <<0, 0>>]

\* selection.data(...).on('mousemove', ...).on('mouseout', ...): the datum
\* bound to a marker, whether its mousemove handler acts, and the radius and
\* opacity its mouseout handler assigns; given is the radius and the opacity
\* (the end value, when animated) the render path has given the marker
Bound(x, d, onmove, onout, given) ==
    [x EXCEPT !.datum = Some(d), !.onmove = onmove, !.onout = onout, !.given = given]

\* a d3 transition in flight on a marker: its end values
Transition(cy, opacity, remove) == [cy |-> cy, opacity |-> opacity, remove |-> remove]

MainGroups(sc) == {x \in sc : x.cls = "main-group"}

\* the classes the :not(...) selector of the clearing step spares
SparedClasses ==
    {"morph-dot", "inside-line", "outside-line", "effect-line",
     "effect-label-rect", "effect-label-text", "main-group"}

\* an element removed from the scene takes its children with it
Attached(sc) ==
    {x \in sc : x.parent = "svg" \/ MainGroups(sc) # {}}

\* Clear elements appropriately
ClearElements_all(sc, shouldPreserveElements, isAtFullScatter) == {}
ClearElements_spare(sc, shouldPreserveElements, isAtFullScatter) ==
    Attached({x \in sc : x.cls \in SparedClasses})
ClearElements(sc, shouldPreserveElements, isAtFullScatter) ==
    IF shouldPreserveElements \/ isAtFullScatter
    THEN Attached({x \in sc : x.cls \in SparedClasses})
    ELSE {}

\* Get or create main group
MainGroupElem == Elem("main-group", "svg", TRUE, 0, TRUE)

GetOrCreateMainGroup(sc) ==
    IF MainGroups(sc) = {}
    THEN sc \cup {MainGroupElem}
    ELSE {x \in sc : ~(x.parent = "main-group" /\
                       x.cls \in {"morphing-district", "fading-district",
                                  "district", "district-bg"})}

\* renderScatterBackgrounds, renderScatterLabels, renderScatterAxes: all are
\* handed the main group g
renderScatterLayers(sc) ==
    sc \cup {Elem("mita-bg", "main-group", FALSE, 0, TRUE),
             Elem("nonmita-bg", "main-group", FALSE, 0, TRUE),
             Elem("scatter-label", "main-group", FALSE, 0, TRUE),
             Elem("x-axis", "main-group", FALSE, 0, TRUE),
             Elem("y-axis", "main-group", FALSE, 0, TRUE)}

\* renderMap: one path per district, in the main group g
renderMap(sc) ==
    sc \cup {Elem("district-bg", "main-group", FALSE, 0, TRUE)}
       \cup {Elem("district", "main-group", FALSE, u, projection(u) # Null) :
                u \in Ubigeos(mergedData)}

\* renderFittedLines is handed the root svg and the margin, not the main group
FittedLineClasses(scatterPhase) ==
    CASE scatterPhase = "dots" -> {}
      [] scatterPhase = "ols"  -> {"inside-line", "outside-line"}
      [] OTHER -> {"inside-line", "outside-line", "effect-line",
                   "effect-label-rect", "effect-label-text"}

LineClasses ==
    {"inside-line", "outside-line", "effect-line", "effect-label-rect",
     "effect-label-text"}

renderFittedLines(sc, scatterPhase) ==
    {x \in sc : x.cls \notin LineClasses}
       \cup {Elem(c, "svg", TRUE, 0, TRUE) : c \in FittedLineClasses(scatterPhase)}

----------------------------------------------------------------------------
(* MorphRenderer *)

\* g.selectAll('.morph-dot'): the markers below the main group
DotsIn(sc) == {x \in sc : x.cls = "morph-dot" /\ x.parent = "main-group"}

DotOf(dots, k) == CHOOSE x \in dots : x.key = k

\* a new circle element: an object distinct from every element the scene
\* held before the pass
NewId(before, k) ==
    LET old == {x \in before : x.cls = "morph-dot" /\ x.key = k}
    IN  IF old = {} THEN 2 * k
        ELSE 2 * k + (1 - ((CHOOSE x \in old : TRUE).id % 2))

\* Math.max(0, Math.min(hi, x))
ClampToPlot_none(hi, x) == x
ClampToPlot(hi, x) == Max2(0, Min2(hi, x))

\* the parent of an appended marker: the main group g
DotParent == "main-group"

ScatterCx(d) == ClampToPlot(innerWidth, createXScale(innerWidth, d.scatterX))
ScatterCy(d, o) ==
    ClampToPlot(innerHeight, createYScale(allScatterData, innerHeight, o, d.scatterY))

\* the cy of the outcome-transition path
OutcomeCy(d, currentOutcome) ==
    LET yVal == getOutcomeY(d, currentOutcome)
    IN  IF yVal # Null
        THEN ClampToPlot(innerHeight,
                 createYScale(allScatterData, innerHeight, currentOutcome, Get(yVal)))
        ELSE innerHeight \div 2

\* the opacity the outcome-transition path animates a marker to
OutcomeOpacity_always(d, currentOutcome) == OpacityDot
OutcomeOpacity(d, currentOutcome) ==
    IF getOutcomeY(d, currentOutcome) # Null THEN OpacityDot ELSE 0

renderFadingDistricts(sc, scatterUbigeos) ==
    sc \cup {Elem("fading-district", "main-group", FALSE, u, TRUE) :
                u \in Ubigeos(mergedData) \ scatterUbigeos}

renderOutcomeTransition(sc, before, all, currentOutcome) ==
    LET existing == DotsIn(sc)
        keys     == {x.key : x \in existing}
        enter    == {Bound(Dot(DotParent, d.ubigeo, NewId(before, d.ubigeo),
                               ScatterCx(d), OutcomeCy(d, currentOutcome), 50, 0,
                               Some(Transition(OutcomeCy(d, currentOutcome),
                                               OutcomeOpacity(d, currentOutcome), FALSE))),
                           d, TRUE, <<50, OpacityDot>>,
                           <<50, OutcomeOpacity(d, currentOutcome)>>) :
                        d \in {p \in SeqRange(all) : p.ubigeo \notin keys}}
        update   == {Bound([DotOf(existing, d.ubigeo) EXCEPT
                               !.cx = ScatterCx(d),
                               !.trans = Some(Transition(OutcomeCy(d, currentOutcome),
                                                  OutcomeOpacity(d, currentOutcome), FALSE))],
                           d, TRUE, <<50, OpacityDot>>,
                           <<DotOf(existing, d.ubigeo).given[1],
                             OutcomeOpacity(d, currentOutcome)>>) :
                        d \in {p \in SeqRange(all) : p.ubigeo \in keys}}
        exit     == {[x EXCEPT !.trans = Some(Transition(x.cy, 0, TRUE)),
                               !.given = <<x.given[1], 0>>] :
                        x \in {y \in existing : y.key \notin Ubigeos(all)}}
    IN  (sc \ existing) \cup enter \cup update \cup exit

\* the d attribute of a morphing district is empty when the centroid has no
\* projection or fewer than 3 vertices have one
MorphingDistrictDrawn_always(u) == TRUE
MorphingDistrictDrawn(u) == projection(u) # Null /\ projectedPoints(u) >= 3

\* the path of one scatter district part-way between polygon and circle
renderMorphingDistricts(sc, scatterData) ==
    sc \cup {Elem("morphing-district", "main-group", FALSE, d.ubigeo,
                  MorphingDistrictDrawn(d.ubigeo)) : d \in SeqRange(scatterData)}

\* the map position of a district blended with its scatter position
InterpolatedX(d, easedMorphT) ==
    LET geoCoord == projection(d.ubigeo)
        mapX     == IF geoCoord # Null THEN Get(geoCoord)[1] ELSE 0
        scatterX == createXScale(innerWidth, d.scatterX)
    IN  mapX + ((scatterX - mapX) * easedMorphT) \div 1000

InterpolatedY(d, o, easedMorphT) ==
    LET geoCoord == projection(d.ubigeo)
        mapY     == IF geoCoord # Null THEN Get(geoCoord)[2] ELSE 0
        scatterY == createYScale(allScatterData, innerHeight, o, d.scatterY)
    IN  mapY + ((scatterY - mapY) * easedMorphT) \div 1000

\* morphT > 0.8: the markers of the morphing path answer the pointer
HoverFrom == 8

MorphCx(d, easedMorphT) == ClampToPlot(innerWidth, InterpolatedX(d, easedMorphT))
MorphCy(d, o, easedMorphT) == ClampToPlot(innerHeight, InterpolatedY(d, o, easedMorphT))

renderMorphingDots(sc, before, scatterData, o, morphT, easedMorphT) ==
    IF morphT <= DotFadeStart THEN sc
    ELSE
      LET dotOpacity == Min2(1000, ((morphT - DotFadeStart) * 1000)
                                      \div (DotFadeEnd - DotFadeStart))
          dotRadius  == (50 * easedMorphT) \div 1000
          existing   == DotsIn(sc)
          keys       == {x.key : x \in existing}
          look       == <<dotRadius, (dotOpacity * OpacityDot) \div 1000>>
          joined     ==
            {Bound(IF d.ubigeo \in keys
                   THEN [DotOf(existing, d.ubigeo) EXCEPT
                            !.cx = MorphCx(d, easedMorphT),
                            !.cy = MorphCy(d, o, easedMorphT),
                            !.r = dotRadius, !.opacity = look[2]]
                   ELSE Dot(DotParent, d.ubigeo, NewId(before, d.ubigeo),
                            MorphCx(d, easedMorphT), MorphCy(d, o, easedMorphT),
                            dotRadius, look[2], Null),
                   d, morphT > HoverFrom, look, look) :
             d \in SeqRange(scatterData)}
      IN  (sc \ existing) \cup joined

renderFullScatterDots(sc, before, scatterData, o) ==
    LET existing == DotsIn(sc)
        keys     == {x.key : x \in existing}
        joined   ==
          {Bound(IF d.ubigeo \in keys
                 THEN [DotOf(existing, d.ubigeo) EXCEPT
                          !.cx = ScatterCx(d), !.cy = ScatterCy(d, o),
                          !.r = 50, !.opacity = OpacityDot]
                 ELSE Dot(DotParent, d.ubigeo, NewId(before, d.ubigeo),
                          ScatterCx(d), ScatterCy(d, o), 50, OpacityDot, Null),
                 d, TRUE, <<50, OpacityDot>>, <<50, OpacityDot>>) :
           d \in SeqRange(scatterData)}
    IN  (sc \ existing) \cup joined

\* the branch renderMorph takes
MorphPath_phaseFirst(morphT, isOutcomeTransition, isPhaseTransition) ==
    IF morphT >= 10 /\ isPhaseTransition THEN "phase-settle"
    ELSE IF morphT >= 10 /\ isOutcomeTransition THEN "outcome-transition"
    ELSE IF morphT < 10 THEN "morphing"
    ELSE "full-scatter"
MorphPath(morphT, isOutcomeTransition, isPhaseTransition) ==
    IF morphT >= 10 /\ isOutcomeTransition THEN "outcome-transition"
    ELSE IF morphT >= 10 /\ isPhaseTransition THEN "phase-settle"
    ELSE IF morphT < 10 THEN "morphing"
    ELSE "full-scatter"

renderMorph(sc, before, scatterData, currentOutcome, morphT, isOutcomeTransition, isPhaseTransition) ==
    LET easedMorphT == easeInOutQuad(morphT)
        path == MorphPath(morphT, isOutcomeTransition, isPhaseTransition)
        s1   == IF morphT < 10
                THEN renderFadingDistricts(sc, Ubigeos(scatterData)) ELSE sc
    IN  CASE path = "outcome-transition" ->
                renderOutcomeTransition(s1, before, allScatterData, currentOutcome)
          [] path = "phase-settle" ->
                renderFullScatterDots(s1, before, scatterData, currentOutcome)
          [] path = "morphing" ->
                renderMorphingDots(renderMorphingDistricts(s1, scatterData), before,
                                   scatterData, currentOutcome, morphT, easedMorphT)
          [] OTHER ->
                renderFullScatterDots(s1, before, scatterData, currentOutcome)

----------------------------------------------------------------------------
(* UnifiedViz: the main render effect *)

\* Math.min((t - MORPH_TIMING.start) / (MORPH_TIMING.end - MORPH_TIMING.start), 1)
MorphT(t) == Min2(((t - MorphStart) * 10) \div (MorphEnd - MorphStart), 10)

\* prevScatterPhaseRef.current after a pass: assigned inside if (t >= 1)
PrevScatterPhaseAfter_always(t, prev, scatterPhase) == scatterPhase
PrevScatterPhaseAfter(t, prev, scatterPhase) ==
    IF t >= FullScatter THEN scatterPhase ELSE prev

\* prevOutcomeRef.current after a pass: assigned at the end of every pass
PrevOutcomeAfter_atFullScatter(t, prev, currentOutcome) ==
    IF t >= FullScatter THEN currentOutcome ELSE prev
PrevOutcomeAfter(t, prev, currentOutcome) == currentOutcome

MainRenderEffect(cl, acc) ==
    LET t              == cl.state.currentProgress
        currentOutcome == cl.state.currentOutcome
        scatterPhase   == cl.props.scatterPhase
        isOutcomeOnlyTransition ==
            /\ t >= FullScatter /\ acc.refs.prevOutcomeRef # currentOutcome
            /\ acc.refs.prevOutcomeRef # ""
        isPhaseTransition ==
            /\ t >= FullScatter /\ acc.refs.prevScatterPhaseRef # scatterPhase
            /\ acc.refs.prevScatterPhaseRef # ""
        isAtFullScatter == t >= FullScatter
        shouldPreserveElements == isOutcomeOnlyTransition \/ isPhaseTransition
        cleared     == ClearElements(acc.scene, shouldPreserveElements, isAtFullScatter)
        withGroup   == GetOrCreateMainGroup(cleared)
        withLayers  == renderScatterLayers(withGroup)
        scatterData == filterScatterData(mergedData, currentOutcome)
        morphT      == MorphT(t)
        drawn       == IF t < MapPhaseEnd THEN renderMap(withLayers)
                       ELSE renderMorph(withLayers, acc.scene, scatterData,
                                currentOutcome, morphT,
                                isOutcomeOnlyTransition, isPhaseTransition)
        final       == IF t >= FullScatter
                       THEN renderFittedLines(drawn, scatterPhase) ELSE drawn
    IN  [acc EXCEPT
            !.scene = final,
            !.refs  = [acc.refs EXCEPT
                          !.prevScatterPhaseRef = PrevScatterPhaseAfter(t, @, scatterPhase),
                          !.prevOutcomeRef = PrevOutcomeAfter(t, @, currentOutcome)],
            !.pass  = [t |-> t,
                       outcome |-> currentOutcome,
                       outcomeChanged |-> isOutcomeOnlyTransition,
                       phaseChanged |-> isPhaseTransition,
                       path |-> IF t < MapPhaseEnd THEN "map"
                                ELSE MorphPath(morphT, isOutcomeOnlyTransition,
                                               isPhaseTransition),
                       morphT |-> IF t < MapPhaseEnd THEN 0 ELSE morphT,
                       cleared |-> {<<x.cls, x.key>> : x \in cleared}]]

----------------------------------------------------------------------------
(* Effects and their dependency lists *)

Effects == {"morph", "outcome", "zoom", "border", "render"}

DepsChanged_shared(e, old, new) ==
    CASE e \in {"morph", "zoom", "border"} ->
            \/ old.props.morphProgress # new.props.morphProgress
            \/ old.props.zoomLevel # new.props.zoomLevel
            \/ old.props.showDistricts # new.props.showDistricts
      [] e = "outcome" -> old.props.outcome # new.props.outcome
      [] e = "render"  ->
            \/ old.state # new.state
            \/ old.props.scatterPhase # new.props.scatterPhase
            \/ old.props.showDistricts # new.props.showDistricts
            \/ old.props.highlightMode # new.props.highlightMode

DepsChanged(e, old, new) ==
    CASE e = "morph"   -> old.props.morphProgress # new.props.morphProgress
      [] e = "outcome" -> old.props.outcome # new.props.outcome
      [] e = "zoom"    -> old.props.zoomLevel # new.props.zoomLevel
      [] e = "border"  -> old.props.showDistricts # new.props.showDistricts
      [] e = "render"  ->
            \/ old.state # new.state
            \/ old.props.scatterPhase # new.props.scatterPhase
            \/ old.props.showDistricts # new.props.showDistricts
            \/ old.props.highlightMode # new.props.highlightMode

\* React runs the effects in pend, in declaration order, each closing over
\* the props and state cl of the render that scheduled it
RunEffects(pend, cl, acc) ==
    LET a1 == IF "morph"   \in pend THEN AnimationEffect("morph", cl, acc) ELSE acc
        a2 == IF "outcome" \in pend THEN OutcomeEffect(cl, a1) ELSE a1
        a3 == IF "zoom"    \in pend THEN AnimationEffect("zoom", cl, a2) ELSE a2
        a4 == IF "border"  \in pend THEN AnimationEffect("border", cl, a3) ELSE a3
    IN  IF "render" \in pend THEN MainRenderEffect(cl, a4) ELSE a4

Snapshot(p, s) == [props |-> p, state |-> s]

\* the accumulator of one event: what its handlers may write
Acc == [state |-> state, refs |-> refs, queue |-> rafQueue, scene |-> scene, pass |-> pass]

\* React processes the updates of one event: it first runs the effects still
\* pending from the previous render, then renders with props p and the new
\* state, which schedules the effects whose dependencies changed
Commit(p, acc) ==
    \E a \in {Renumber(RunEffects(pendingEffects, Snapshot(props, state), acc))} :
        /\ props' = p
        /\ state' = a.state
        /\ refs' = a.refs
        /\ rafQueue' = a.queue
        /\ scene' = a.scene
        /\ pass' = a.pass
        /\ pendingEffects' =
              {e \in Effects : DepsChanged(e, Snapshot(props, state), Snapshot(p, a.state))}

----------------------------------------------------------------------------
(* Initial state: the component has rendered once with the props of the    *)
(* first step and its mount effects are about to run.                      *)

Init ==
    /\ mounted = TRUE
    /\ props = mainSteps[1]
    /\ state = InitialState(mainSteps[1])
    /\ pendingEffects = Effects
    /\ refs = InitialRefs(mainSteps[1])
    /\ rafQueue = <<>>
    /\ stepsEntered = 0
    /\ \E mitaData \in DataTables :
          /\ mergedData = mergeData(districtPolygons, mitaData)
          /\ allScatterData = getAllScatterData(mergeData(districtPolygons, mitaData))
    /\ scene = {}
    /\ pass = [t |-> 0, outcome |-> "none", outcomeChanged |-> FALSE, phaseChanged |-> FALSE,
               path |-> "none", morphT |-> 0, cleared |-> {}]
    /\ tooltip = Null
    /\ pointerEvent = [type |-> "none"]
    /\ probe = [fn |-> "none"]

----------------------------------------------------------------------------
(* Actions *)

\* ScrollyStory.onStepEnter: a step enters and its fields become the props
StepEnter(i) ==
    /\ mounted
    /\ props # mainSteps[i]
    /\ stepsEntered < MaxStepsEntered
    /\ stepsEntered' = stepsEntered + 1
    /\ Commit(mainSteps[i], Acc)
    /\ UNCHANGED <<mounted, mergedData, allScatterData, tooltip, pointerEvent, probe>>

\* React runs the pending effects of the latest render
FlushEffects ==
    /\ mounted
    /\ pendingEffects # {}
    /\ Commit(props, Acc)
    /\ UNCHANGED <<mounted, stepsEntered, mergedData, allScatterData, tooltip,
                   pointerEvent, probe>>

\* a display refresh: the browser runs every callback registered for this
\* frame, in registration order, all with the same timestamp
Frame(dt) ==
    /\ rafQueue # <<>>
    /\ IF mounted
       THEN Commit(props, RunFrame(rafQueue, dt, [Acc EXCEPT !.queue = <<>>]))
       ELSE LET a == Renumber(RunFrame(rafQueue, dt, [Acc EXCEPT !.queue = <<>>]))
            IN  /\ state' = a.state
                /\ refs' = a.refs
                /\ rafQueue' = a.queue
                /\ UNCHANGED <<props, pendingEffects, scene, pass>>
    /\ UNCHANGED <<mounted, stepsEntered, mergedData, allScatterData, tooltip,
                   pointerEvent, probe>>

\* the component is unmounted: the cleanup of every effect runs
Unmount ==
    /\ mounted
    /\ mounted' = FALSE
    /\ rafQueue' = CancelIfSet(CancelIfSet(CancelIfSet(rafQueue,
                       refs.animationRef), refs.zoomAnimationRef),
                       refs.borderAnimationRef)
    /\ pendingEffects' = {}
    /\ UNCHANGED <<props, state, refs, stepsEntered, mergedData, allScatterData,
                   scene, pass, tooltip, pointerEvent, probe>>

\* the d3 transitions in flight reach their end: every marker takes the end
\* values of its transition, and an exiting marker is removed
TransitionEnd ==
    /\ \E x \in scene : x.trans # Null
    /\ scene' = {IF x.trans = Null THEN x
                 ELSE [x EXCEPT !.cy = Get(x.trans).cy,
                                !.opacity = Get(x.trans).opacity,
                                !.trans = Null] :
                 x \in {y \in scene : y.trans = Null \/ ~Get(y.trans).remove}}
    /\ UNCHANGED <<mounted, props, state, pendingEffects, refs, rafQueue,
                   stepsEntered, mergedData, allScatterData, pass, tooltip,
                   pointerEvent, probe>>

Next ==
    \/ \E i \in 1..Len(mainSteps) : StepEnter(i)
    \/ FlushEffects
    \/ \E dt \in 1..TicksPerAnimation : Frame(dt)
    \/ TransitionEnd
    \/ Unmount

Spec == Init /\ [][Next]_vars

----------------------------------------------------------------------------
(* Pointer events on the markers *)

\* svgRef.current.getBoundingClientRect(): where the svg lies in the window
SvgLeft == 30
SvgTop == 20

\* event.clientX, event.clientY
ClientPositions == {<<150, 100>>}

handleDistrictHover_client(district, event) ==
    IF district # Null /\ event # Null
    THEN Some([x |-> Get(event)[1], y |-> Get(event)[2], district |-> Get(district)])
    ELSE Null
handleDistrictHover(district, event) ==
    IF district # Null /\ event # Null
    THEN Some([x |-> Get(event)[1] - SvgLeft, y |-> Get(event)[2] - SvgTop,
               district |-> Get(district)])
    ELSE Null

\* the pointer is over the marker with key k
PointerOver(k) == pointerEvent.type = "mousemove" /\ pointerEvent.key = k

\* mousemove on the marker with key k: its handler, when it acts, hands the
\* datum and the event to onHover and enlarges the marker; setTooltip makes
\* React render again
MouseMove(k, client) ==
    /\ mounted
    /\ \E x \in DotsIn(scene) : x.key = k
    /\ pointerEvent.type = "mousemove" =>
          (pointerEvent.key = k \/ \A x \in DotsIn(scene) : x.key # pointerEvent.key)
    /\ pointerEvent' = [type |-> "mousemove", key |-> k, client |-> client,
                        early |-> pass.path = "morphing" /\ pass.morphT <= HoverFrom]
    /\ LET x == DotOf(DotsIn(scene), k)
       IN  IF x.onmove
           THEN /\ tooltip' = handleDistrictHover(x.datum, Some(client))
                /\ Commit(props, [Acc EXCEPT !.scene =
                        (scene \ {x}) \cup {[x EXCEPT !.r = 70, !.opacity = 1000]}])
           ELSE UNCHANGED <<tooltip, props, state, pendingEffects, refs, rafQueue,
                            scene, pass>>
    /\ UNCHANGED <<mounted, stepsEntered, mergedData, allScatterData, probe>>

\* mouseout on the marker the pointer is over
MouseOut(k) ==
    /\ mounted
    /\ PointerOver(k)
    /\ \E x \in DotsIn(scene) : x.key = k
    /\ pointerEvent' = [type |-> "none"]
    /\ tooltip' = handleDistrictHover(Null, Null)
    /\ LET x == DotOf(DotsIn(scene), k)
       IN  Commit(props, [Acc EXCEPT !.scene =
               (scene \ {x}) \cup {[x EXCEPT !.r = x.onout[1], !.opacity = x.onout[2]]}])
    /\ UNCHANGED <<mounted, stepsEntered, mergedData, allScatterData, probe>>

NextHover ==
    \/ \E i \in 1..Len(mainSteps) : StepEnter(i)
    \/ FlushEffects
    \/ \E dt \in 1..TicksPerAnimation : Frame(dt)
    \/ TransitionEnd
    \/ Unmount
    \/ \E k \in Ubigeos(mergedData) : \E client \in ClientPositions : MouseMove(k, client)
    \/ \E k \in Ubigeos(mergedData) : MouseOut(k)

\* the pointer is followed over the first district table
InitHover ==
    /\ Init
    /\ mergedData = mergeData(districtPolygons, CHOOSE t \in DataTables : Len(t) = 3)

SpecHover == InitHover /\ [][NextHover]_vars

----------------------------------------------------------------------------
(* Properties of the component                                             *)

\* the step runs the main render effect: a render pass
RenderPass ==
    /\ mounted /\ mounted'
    /\ "render" \in pendingEffects
    /\ <<pendingEffects, stepsEntered, rafQueue>>' #
           <<pendingEffects, stepsEntered, rafQueue>>

AllButFittedLinesInMainGroup ==
    pass.path # "none" =>
        /\ Cardinality(MainGroups(scene)) = 1
        /\ \A g \in MainGroups(scene) : g.parent = "svg" /\ g.translate
        /\ \A x \in scene \ MainGroups(scene) :
              x.cls \notin LineClasses => x.parent = "main-group" /\ ~x.translate

\* C3: every marker the morphing path draws has 0 <= cx <= innerWidth and
\* 0 <= cy <= innerHeight, wherever the projection puts its district.
MorphingMarkersInsidePlot ==
    pass.path = "morphing" =>
        \A x \in DotsIn(scene) :
            /\ 0 <= x.cx /\ x.cx <= innerWidth
            /\ 0 <= x.cy /\ x.cy <= innerHeight

\* a morphing pass has drawn the marker of a district whose blended position
\* lies outside the plot area
MorphingMarkerWasClamped ==
    /\ pass.path = "morphing"
    /\ \E d \in SeqRange(filterScatterData(mergedData, pass.outcome)) :
          /\ \E x \in DotsIn(scene) : x.key = d.ubigeo
          /\ \/ InterpolatedX(d, easeInOutQuad(pass.morphT)) < 0
             \/ InterpolatedX(d, easeInOutQuad(pass.morphT)) > innerWidth
             \/ InterpolatedY(d, pass.outcome, easeInOutQuad(pass.morphT)) < 0
             \/ InterpolatedY(d, pass.outcome, easeInOutQuad(pass.morphT)) > innerHeight

\* C4: a render pass takes exactly the path the routing table gives for its t
\* and its two transition flags (map below 0.3; at t >= 1 outcome-transition
\* when the outcome changed, else phase-settle when the phase changed, else
\* full-scatter; morphing in between), and morphT is
\* clamp((t - 0.3) / 0.7, 0, 1), a value of [0, 1].
PathFollowsRoutingTable ==
    pass.path # "none" =>
        /\ pass.path =
              (IF pass.t < 3 THEN "map"
               ELSE IF pass.t < 10 THEN "morphing"
               ELSE IF pass.outcomeChanged THEN "outcome-transition"
               ELSE IF pass.phaseChanged THEN "phase-settle"
               ELSE "full-scatter")
        /\ pass.t >= 3 =>
              pass.morphT =
                  Clamp(0, 10, ((pass.t - MorphStart) * 10) \div (MorphEnd - MorphStart))
        /\ 0 <= pass.morphT /\ pass.morphT <= 10

\* a pass at t >= 1 saw the outcome and the phase change together and took
\* the outcome-transition path
BothFlagsTakeOutcomeTransition ==
    /\ pass.outcomeChanged /\ pass.phaseChanged
    /\ pass.path = "outcome-transition"

\* C5: a render pass at t < 1 leaves no element of the scene in place; a pass
\* at t >= 1 leaves in place the markers, the fitted-line and effect elements
\* and the main group, and no other element.
ClearingRule ==
    [][RenderPass =>
          pass'.cleared =
              IF pass'.t < 10 THEN {}
              ELSE {<<x.cls, x.key>> : x \in {y \in scene : y.cls \in SparedClasses}}]_vars

\* a pass at t >= 1 left a marker and a fitted line in place
PassKeptMarkerAndLine ==
    /\ pass.t >= 10
    /\ \E k \in pass.cleared : k[1] = "morph-dot"
    /\ \E k \in pass.cleared : k[1] = "inside-line"

\* C6: across a render pass at t = 1 in which only the outcome changed, the
\* marker of a district that has one before and after the pass is the same
\* element object.
MarkerIdentityKept ==
    [][RenderPass /\ pass'.outcomeChanged =>
          \A x \in DotsIn(scene) : \A y \in DotsIn(scene') :
              x.key = y.key => x.id = y.id]_vars

\* an outcome-change pass has re-used a marker that was on screen: the marker
\* is at full opacity and has a transition in flight
OutcomePassReusedMarker ==
    /\ pass.path = "outcome-transition"
    /\ \E x \in DotsIn(scene) : x.opacity = OpacityDot /\ x.trans # Null

\* C7: each of the three animated values has at most one pending tick, and
\* the pending tick is the one its handle cell holds: the tick of a
\* superseded loop was cancelled before the new loop's first tick was
\* scheduled.
OnePendingTickPerValue ==
    \A l \in LoopSet :
        LET pending == {i \in 1..Len(rafQueue) : rafQueue[i].loop = l}
        IN  /\ Cardinality(pending) <= 1
            /\ \A i \in pending : rafQueue[i].handle = refs[RefOf(l)]

\* a loop was re-targeted in flight: its pending tick starts from a value
\* strictly between the two end values
LoopRetargetedInFlight ==
    \E i \in 1..Len(rafQueue) : rafQueue[i].start \notin {0, 10}

\* C8: once the component is unmounted no tick is pending, so no tick fires
\* for it.
NoTickAfterUnmount ==
    ~mounted => rafQueue = <<>>

\* the component was unmounted while the morph animation was in flight
UnmountedInFlight ==
    /\ ~mounted
    /\ state.currentProgress # props.morphProgress

\* C10 (as stated): the outcome-transition path keeps every existing marker
\* at the clamped X of its scatterX, animates its Y to the clamped scale of
\* its value under the new outcome, and fades a marker whose district is not
\* valid under the new outcome to opacity 0 without removing it.
OutcomeTransitionFadesInvalid ==
    [][RenderPass /\ pass'.path = "outcome-transition" =>
          \A x \in DotsIn(scene) :
              \E y \in DotsIn(scene') :
                  /\ y.key = x.key /\ y.id = x.id /\ y.trans # Null
                  /\ ~Get(y.trans).remove
                  /\ \A i \in 1..Len(allScatterData) :
                        allScatterData[i].ubigeo = x.key =>
                            /\ y.cx = ScatterCx(allScatterData[i])
                            /\ Get(y.trans).cy =
                                  OutcomeCy(allScatterData[i], pass'.outcome)
                  /\ x.key \notin Ubigeos(filterScatterData(mergedData, pass'.outcome))
                        => Get(y.trans).opacity = 0]_vars

\* the scatter districts of the latest pass whose centroid, or all but at most
\* two of whose vertices, the projection gives no coordinate for
Unprojected(u) == projection(u) = Null \/ projectedPoints(u) < 3

\* C18 (as stated): when the projection gives no coordinate for a district's
\* centroid or for its vertices, the morphing path draws neither a polygon
\* nor a marker for that district, and draws every other district as usual.
MissingProjectionSkipsDistrict ==
    pass.path = "morphing" =>
        \A d \in SeqRange(filterScatterData(mergedData, pass.outcome)) :
            LET polygons == {x \in scene : x.cls = "morphing-district" /\
                                           x.key = d.ubigeo /\ x.drawn}
                markers  == {x \in DotsIn(scene) : x.key = d.ubigeo}
            IN  IF Unprojected(d.ubigeo)
                THEN polygons = {} /\ markers = {}
                ELSE polygons # {} /\ (pass.morphT > DotFadeStart => markers # {})

\* the polygon half of it: the polygon of such a district is not drawn, the
\* polygon of every other scatter district is
MissingProjectionSkipsPolygon ==
    pass.path = "morphing" =>
        \A d \in SeqRange(filterScatterData(mergedData, pass.outcome)) :
            Unprojected(d.ubigeo) <=>
                {x \in scene : x.cls = "morphing-district" /\
                               x.key = d.ubigeo /\ x.drawn} = {}

\* the same with "no valid value" read as "no Y in the full table": every
\* existing marker is kept, at the clamped X, moving to the new Y, and fades
\* to opacity 0 when getOutcomeY gives null for the new outcome
OutcomeTransitionFadesValueless ==
    [][RenderPass /\ pass'.path = "outcome-transition" =>
          \A x \in DotsIn(scene) :
              \E y \in DotsIn(scene') :
                  /\ y.key = x.key /\ y.id = x.id /\ y.trans # Null
                  /\ ~Get(y.trans).remove
                  /\ \A i \in 1..Len(allScatterData) :
                        allScatterData[i].ubigeo = x.key =>
                            /\ y.cx = ScatterCx(allScatterData[i])
                            /\ Get(y.trans).cy =
                                  OutcomeCy(allScatterData[i], pass'.outcome)
                            /\ getOutcomeY(allScatterData[i], pass'.outcome) = Null
                                  => Get(y.trans).opacity = 0]_vars

----------------------------------------------------------------------------
(* The pure functions on their own: the component is left out and probe    *)
(* holds the input of a function and, once it has been applied, its result *)

componentVars ==
    <<mounted, props, state, pendingEffects, refs, rafQueue, stepsEntered,
      mergedData, allScatterData, scene, pass, tooltip, pointerEvent>>

ComponentStopped ==
    /\ mounted = FALSE
    /\ props = mainSteps[1]
    /\ state = InitialState(mainSteps[1])
    /\ pendingEffects = {}
    /\ refs = InitialRefs(mainSteps[1])
    /\ rafQueue = <<>>
    /\ stepsEntered = 0
    /\ scene = {}
    /\ pass = [t |-> 0, outcome |-> "none", outcomeChanged |-> FALSE, phaseChanged |-> FALSE,
               path |-> "none", morphT |-> 0, cleared |-> {}]
    /\ tooltip = Null
    /\ pointerEvent = [type |-> "none"]

ComponentIdle ==
    /\ ComponentStopped
    /\ mergedData = <<>>
    /\ allScatterData = <<>>

(* scaleUtils *)

InitScale ==
    /\ ComponentIdle
    /\ \E x \in (-MaxDistance)..MaxDistance :
          probe = [fn |-> "createXScale", x |-> x, px |-> Null]

\* createXScale(innerWidth)(x)
ApplyXScale ==
    /\ probe.px = Null
    /\ probe' = [probe EXCEPT !.px = Some(createXScale(innerWidth, probe.x))]
    /\ UNCHANGED componentVars

NextScale == ApplyXScale

SpecScale == InitScale /\ [][NextScale]_vars

\* C2: for every input x the distance scale returns a pixel value of
\* [0, innerWidth]; inputs below -50 give 0 and inputs above 50 give
\* innerWidth.
XScaleIsClamped ==
    (probe.fn = "createXScale" /\ probe.px # Null) =>
        /\ 0 <= Get(probe.px) /\ Get(probe.px) <= innerWidth
        /\ probe.x < -50 => Get(probe.px) = 0
        /\ probe.x > 50 => Get(probe.px) = innerWidth

\* the scale has been applied to inputs far outside the domain
XScaleAppliedFarOutside ==
    /\ probe.fn = "createXScale"
    /\ probe.x > 100
    /\ probe.px = Some(innerWidth)

(* dataUtils *)

\* the values of one nullable outcome field: null, zero, below 0.001,
\* 0.001 itself and a typical value
FieldValues == {Null, Some(0), Some(5), Some(10), Some(1200)}

\* the stored distances, of either sign
Distances == {Null, Some(-60), Some(-25), Some(0), Some(25), Some(40), Some(60)}

\* the outcome records a district can come with; the empty sequence when
\* mitaData.json has no record of the district
Records ==
    {<<>>} \cup
    {<<Outcome(1, dist, inside, st, co, ro)>> :
        dist \in Distances, inside \in {Null, Some(TRUE), Some(FALSE)},
        st \in FieldValues, co \in FieldValues, ro \in FieldValues}

InitData ==
    /\ ComponentIdle
    /\ \E m \in {0, 1} : \E data \in Records :
          probe = [fn |-> "dataUtils", polys |-> <<Polygon(1, m)>>, data |-> data,
                   merged |-> Null, filtered |-> Null, all |-> Null]

Merge ==
    /\ probe.merged = Null
    /\ probe' = [probe EXCEPT !.merged = Some(mergeData(probe.polys, probe.data))]
    /\ UNCHANGED componentVars

Filter(o) ==
    /\ probe.merged # Null
    /\ probe.filtered = Null
    /\ probe' = [probe EXCEPT !.filtered =
                     Some([outcome |-> o,
                           table |-> filterScatterData(Get(probe.merged), o)])]
    /\ UNCHANGED componentVars

GetAll ==
    /\ probe.merged # Null
    /\ probe.all = Null
    /\ probe' = [probe EXCEPT !.all = Some(getAllScatterData(Get(probe.merged)))]
    /\ UNCHANGED componentVars

NextData ==
    \/ Merge
    \/ \E o \in Outcomes : Filter(o)
    \/ GetAll

SpecData == InitData /\ [][NextData]_vars

\* the scatter points derived so far, of either table
DerivedPoints ==
    (IF probe.filtered # Null THEN SeqRange(Get(probe.filtered).table) ELSE {})
        \cup (IF probe.all # Null THEN SeqRange(Get(probe.all)) ELSE {})

ValidValue(d, o) ==
    /\ d[o] # Null
    /\ Get(d[o]) >= (IF o = "roads" THEN 0 ELSE MinPresent)

\* C16 (as stated): filterScatterData keeps a district for outcome o exactly
\* when its distance is non-null, its value for o is non-null and the value
\* is strictly greater than 0.001 for stunting and consumption, or at least
\* 0 for roads.
FilterKeepsAboveEpsilon ==
    (probe.fn = "dataUtils" /\ probe.filtered # Null) =>
        LET o == Get(probe.filtered).outcome
        IN  \A d \in SeqRange(Get(probe.merged)) :
                d.ubigeo \in Ubigeos(Get(probe.filtered).table) <=>
                    /\ d.distance # Null
                    /\ d[o] # Null
                    /\ IF o = "roads" THEN Get(d[o]) >= 0
                                      ELSE Get(d[o]) > MinPresent

\* the same with 0.001 itself counted as present
FilterKeepsFromEpsilon ==
    (probe.fn = "dataUtils" /\ probe.filtered # Null) =>
        \A d \in SeqRange(Get(probe.merged)) :
            d.ubigeo \in Ubigeos(Get(probe.filtered).table) <=>
                d.distance # Null /\ ValidValue(d, Get(probe.filtered).outcome)

\* C17: every district of the outcome-filtered table is in the full table,
\* and a district with a non-null distance and at least one valid outcome is
\* in the full table whatever its value for the active outcome.
FilteredWithinFull ==
    (probe.fn = "dataUtils" /\ probe.filtered # Null /\ probe.all # Null) =>
        /\ Ubigeos(Get(probe.filtered).table) \subseteq Ubigeos(Get(probe.all))
        /\ \A d \in SeqRange(Get(probe.merged)) :
              (d.distance # Null /\ \E o \in Outcomes : ValidValue(d, o))
                  => d.ubigeo \in Ubigeos(Get(probe.all))

\* a district without a valid value for the active outcome is dropped from
\* the filtered table and kept in the full table
FullKeepsWhatFilterDrops ==
    /\ probe.fn = "dataUtils"
    /\ probe.filtered # Null /\ probe.all # Null
    /\ Get(probe.filtered).table = <<>>
    /\ Get(probe.all) # <<>>
    /\ \E d \in SeqRange(Get(probe.merged)) :
          ~ValidValue(d, Get(probe.filtered).outcome)

\* C20: every point of the filtered table has scatterX = abs(distance) when
\* the district is inside and -abs(distance) otherwise, and scatterY = the
\* value times 100 for stunting, the value itself for consumption and roads.
ScatterCoordinates ==
    (probe.fn = "dataUtils" /\ probe.filtered # Null) =>
        LET o == Get(probe.filtered).outcome
        IN  \A p \in SeqRange(Get(probe.filtered).table) :
                /\ p.scatterX = IF p.isInside THEN Abs(Get(p.distance))
                                              ELSE -Abs(Get(p.distance))
                /\ p.scatterY = IF o = "stunting" THEN Get(p.stunting) * 100
                                                  ELSE Get(p[o])

\* distance 25 inside with stunting 0.12 has given scatterX 25 and scatterY 12
StuntingExampleDerived ==
    /\ probe.fn = "dataUtils"
    /\ probe.filtered # Null
    /\ Get(probe.filtered).outcome = "stunting"
    /\ \E p \in SeqRange(Get(probe.filtered).table) :
          /\ p.isInside /\ p.distance = Some(25) /\ p.stunting = Some(1200)
          /\ p.scatterX = 25 /\ p.scatterY = 120000

\* distance 40 outside has given scatterX -40
OutsideExampleDerived ==
    /\ probe.fn = "dataUtils"
    /\ probe.filtered # Null
    /\ \E p \in SeqRange(Get(probe.filtered).table) :
          ~p.isInside /\ p.distance = Some(40) /\ p.scatterX = -40

\* C19: on its domain the distance scale is the linear map of [-50, 50] onto
\* [0, innerWidth]: -50 gives 0, 0 gives innerWidth / 2, 50 gives innerWidth,
\* and the halves of the domain map strictly inside the halves of the range.
XScaleIsLinearOnDomain ==
    (probe.fn = "createXScale" /\ probe.px # Null) =>
        LET x  == probe.x
            px == Get(probe.px)
        IN  /\ x = -50 => px = 0
            /\ x = 0 => 2 * px = innerWidth
            /\ x = 50 => px = innerWidth
            /\ (0 < x /\ x < 50) => (innerWidth < 2 * px /\ px < innerWidth)
            /\ (-50 < x /\ x < 0) => (0 < px /\ 2 * px < innerWidth)
            /\ (-50 <= x /\ x <= 50) => 100 * px = innerWidth * (x + 50)

\* the scale has been applied to the middle of its domain
XScaleAppliedAtZero ==
    /\ probe.fn = "createXScale"
    /\ probe.x = 0
    /\ probe.px # Null /\ 2 * Get(probe.px) = innerWidth

(* MorphRenderer *)

InitMorph ==
    /\ ComponentStopped
    /\ \E mitaData \in DataTables :
          /\ mergedData = mergeData(districtPolygons, mitaData)
          /\ allScatterData = getAllScatterData(mergeData(districtPolygons, mitaData))
    /\ \E o \in Outcomes : \E m \in 0..10 :
          probe = [fn |-> "renderMorph", outcome |-> o, morphT |-> m,
                   centre |-> Null, scene |-> Null]

\* renderMorph at one morphT, without transition flags, on a cleared scene;
\* centre is what the cx and cy callbacks of the morphing path return
ApplyRenderMorph ==
    /\ probe.scene = Null
    /\ LET scatterData == filterScatterData(mergedData, probe.outcome)
           eased       == easeInOutQuad(probe.morphT)
       IN  probe' = [probe EXCEPT
               !.centre = Some([u \in Ubigeos(scatterData) |->
                   LET d == CHOOSE p \in SeqRange(scatterData) : p.ubigeo = u
                   IN  <<MorphCx(d, eased), MorphCy(d, probe.outcome, eased)>>]),
               !.scene = Some(renderMorph(renderScatterLayers(GetOrCreateMainGroup({})),
                                          {}, scatterData, probe.outcome,
                                          probe.morphT, FALSE, FALSE))]
    /\ UNCHANGED componentVars

NextMorph == ApplyRenderMorph

SpecMorph == InitMorph /\ [][NextMorph]_vars

\* the final scatter coordinate of a point
ScatterCoordinate(d, o) ==
    <<createXScale(innerWidth, d.scatterX),
      createYScale(allScatterData, innerHeight, o, d.scatterY)>>

----------------------------------------------------------------------------
(* dataUtils: boundary districts.  Coordinates are in units of half the
   vertex tolerance (0.0005 degrees). *)

VERTEX_TOLERANCE == 2

verticesMatch(v1, v2) ==
    Abs(v1[1] - v2[1]) < VERTEX_TOLERANCE /\ Abs(v1[2] - v2[2]) < VERTEX_TOLERANCE

getBBox(poly) ==
    [minLat |-> SetMin({poly[i][1] : i \in 1..Len(poly)}),
     maxLat |-> SetMax({poly[i][1] : i \in 1..Len(poly)}),
     minLon |-> SetMin({poly[i][2] : i \in 1..Len(poly)}),
     maxLon |-> SetMax({poly[i][2] : i \in 1..Len(poly)})]

BBoxesApart_shrunk(poly1, poly2) ==
    LET bbox1 == getBBox(poly1)
        bbox2 == getBBox(poly2)
    IN  \/ bbox1.maxLat - VERTEX_TOLERANCE < bbox2.minLat
        \/ bbox2.maxLat - VERTEX_TOLERANCE < bbox1.minLat
        \/ bbox1.maxLon - VERTEX_TOLERANCE < bbox2.minLon
        \/ bbox2.maxLon - VERTEX_TOLERANCE < bbox1.minLon

\* the bounding boxes are apart by more than twice the tolerance
BBoxesApart(poly1, poly2) ==
    LET bbox1 == getBBox(poly1)
        bbox2 == getBBox(poly2)
        tol   == VERTEX_TOLERANCE * 2
    IN  \/ bbox1.maxLat + tol < bbox2.minLat
        \/ bbox2.maxLat + tol < bbox1.minLat
        \/ bbox1.maxLon + tol < bbox2.minLon
        \/ bbox2.maxLon + tol < bbox1.minLon

\* sharedCount after the whole double loop: the matching pairs of positions
sharedCount(poly1, poly2) ==
    Cardinality({ij \in (1..Len(poly1)) \X (1..Len(poly2)) :
                    verticesMatch(poly1[ij[1]], poly2[ij[2]])})

polygonsShareEdge(poly1, poly2) ==
    ~BBoxesApart(poly1, poly2) /\ sharedCount(poly1, poly2) >= 2

computeBoundaryDistricts_mitaOnly(data) ==
    {d.ubigeo : d \in {m \in SeqRange(data) : m.mita = 1 /\
        \E n \in SeqRange(data) : n.mita = 0 /\ polygonsShareEdge(m.polygon, n.polygon)}}

computeBoundaryDistricts(data) ==
    LET mitaDistricts    == {d \in SeqRange(data) : d.mita = 1}
        nonMitaDistricts == {d \in SeqRange(data) : d.mita = 0}
        pairs == {p \in mitaDistricts \X nonMitaDistricts :
                     polygonsShareEdge(p[1].polygon, p[2].polygon)}
    IN  {p[1].ubigeo : p \in pairs} \cup {p[2].ubigeo : p \in pairs}

\* polygons as closed rings (the first vertex repeated at the end)
Ring(vs) == Append(vs, vs[1])

Rings ==
    { Ring(<< <<0, 0>>, <<0, 10>>, <<10, 10>>, <<10, 0>> >>),
      Ring(<< <<0, 10>>, <<0, 20>>, <<10, 20>>, <<10, 10>> >>),
      Ring(<< <<1, 10>>, <<0, 20>>, <<10, 20>>, <<10, 11>> >>),
      Ring(<< <<10, 10>>, <<20, 10>>, <<20, 20>>, <<10, 20>> >>),
      Ring(<< <<20, 10>>, <<20, 20>>, <<10, 20>>, <<10, 10>> >>),
      Ring(<< <<10, 0>>, <<20, 0>>, <<20, 8>> >>),
      Ring(<< <<40, 40>>, <<50, 40>>, <<50, 50>> >>) }

InitBoundary ==
    /\ ComponentIdle
    /\ \E m1, m2, m3 \in {0, 1} : \E r1, r2, r3 \in Rings :
          probe = [fn |-> "computeBoundaryDistricts",
                   data |-> << [ubigeo |-> 1, mita |-> m1, polygon |-> r1],
                               [ubigeo |-> 2, mita |-> m2, polygon |-> r2],
                               [ubigeo |-> 3, mita |-> m3, polygon |-> r3] >>,
                   boundaryUbigeos |-> Null]

ComputeBoundary ==
    /\ probe.boundaryUbigeos = Null
    /\ probe' = [probe EXCEPT !.boundaryUbigeos = Some(computeBoundaryDistricts(probe.data))]
    /\ UNCHANGED componentVars

NextBoundary == ComputeBoundary

SpecBoundary == InitBoundary /\ [][NextBoundary]_vars

BoundaryComputed == probe.fn = "computeBoundaryDistricts" /\ probe.boundaryUbigeos # Null

\* the distinct vertices of poly1 that match a vertex of poly2
SharedVertices(poly1, poly2) ==
    {v \in SeqRange(poly1) : \E w \in SeqRange(poly2) : verticesMatch(v, w)}

OppositeFlags(a, b) == (a.mita = 1 /\ b.mita = 0) \/ (a.mita = 0 /\ b.mita = 1)

\* C12 (as stated): the boundary set holds both districts of an
\* opposite-flag pair whose polygons have exactly 2 matching vertices, and
\* holds no district that shares at most 1 vertex with each district of
\* the opposite flag.
BoundaryFollowsSharedVertices ==
    BoundaryComputed =>
        \A a \in SeqRange(probe.data) :
            /\ \A b \in SeqRange(probe.data) :
                  (OppositeFlags(a, b) /\
                   Cardinality(SharedVertices(a.polygon, b.polygon)) = 2 /\
                   Cardinality(SharedVertices(b.polygon, a.polygon)) = 2)
                      => {a.ubigeo, b.ubigeo} \subseteq Get(probe.boundaryUbigeos)
            /\ (\A b \in SeqRange(probe.data) :
                   OppositeFlags(a, b) =>
                       /\ Cardinality(SharedVertices(a.polygon, b.polygon)) <= 1
                       /\ Cardinality(SharedVertices(b.polygon, a.polygon)) <= 1)
                  => a.ubigeo \notin Get(probe.boundaryUbigeos)

\* the first half of it alone
BoundaryHoldsEdgeSharers ==
    BoundaryComputed =>
        \A a, b \in SeqRange(probe.data) :
            (OppositeFlags(a, b) /\
             Cardinality(SharedVertices(a.polygon, b.polygon)) = 2 /\
             Cardinality(SharedVertices(b.polygon, a.polygon)) = 2)
                => {a.ubigeo, b.ubigeo} \subseteq Get(probe.boundaryUbigeos)

\* C13: the boundary set is symmetric: of a mita and a non-mita district
\* whose polygons share an edge both are in the set, and every member of
\* the set has such a partner in the set.
BoundarySetIsSymmetric ==
    BoundaryComputed =>
        /\ \A a, b \in SeqRange(probe.data) :
              (a.mita = 1 /\ b.mita = 0 /\ polygonsShareEdge(a.polygon, b.polygon))
                  => {a.ubigeo, b.ubigeo} \subseteq Get(probe.boundaryUbigeos)
        /\ \A a \in SeqRange(probe.data) :
              a.ubigeo \in Get(probe.boundaryUbigeos) =>
                  \E b \in SeqRange(probe.data) :
                      /\ OppositeFlags(a, b)
                      /\ b.ubigeo \in Get(probe.boundaryUbigeos)
                      /\ IF a.mita = 1 THEN polygonsShareEdge(a.polygon, b.polygon)
                                        ELSE polygonsShareEdge(b.polygon, a.polygon)

\* a table with a bordering pair has been processed
BoundaryPairFound ==
    /\ BoundaryComputed
    /\ \E a, b \in SeqRange(probe.data) :
          /\ a.mita = 1 /\ b.mita = 0
          /\ polygonsShareEdge(a.polygon, b.polygon)
          /\ a.ubigeo \in Get(probe.boundaryUbigeos)

----------------------------------------------------------------------------
(* Properties of the pointer events *)

\* the payload the hover of pointerEvent should have put into the tooltip
HoverPayload ==
    LET m == CHOOSE d \in SeqRange(mergedData) : d.ubigeo = pointerEvent.key
    IN  /\ tooltip # Null
        /\ Get(tooltip).x = pointerEvent.client[1] - SvgLeft
        /\ Get(tooltip).y = pointerEvent.client[2] - SvgTop
        /\ Get(tooltip).district.ubigeo = m.ubigeo
        /\ Get(tooltip).district.mita = m.mita
        /\ Get(tooltip).district.isInside = m.isInside
        /\ Get(tooltip).district.distance = m.distance
        /\ \A o \in Outcomes : Get(tooltip).district[o] = m[o]

Look(x) == <<x.r, IF x.trans # Null THEN Get(x.trans).opacity ELSE x.opacity>>

HoverExitRestoresBaselineOfDrawnPaths ==
    pass.path # "outcome-transition" =>
        \A x \in DotsIn(scene) : PointerOver(x.key) \/ Look(x) = x.given

----------------------------------------------------------------------------
(* Agreement of the two derived tables *)

\* the full table gives district u a Y for outcome o
FullTableHasY(all, u, o) ==
    \E p \in SeqRange(all) : p.ubigeo = u /\ getOutcomeY(p, o) # Null

\* C29 (as stated): for every district and every outcome the full table
\* gives a non-null Y for the outcome exactly when the district is in the
\* outcome-filtered table of that outcome.
TablesAgreeOnValidity ==
    (probe.fn = "dataUtils" /\ probe.filtered # Null /\ probe.all # Null) =>
        \A d \in SeqRange(Get(probe.merged)) :
            FullTableHasY(Get(probe.all), d.ubigeo, Get(probe.filtered).outcome)
                <=> d.ubigeo \in Ubigeos(Get(probe.filtered).table)

\* one direction of it: a district of the outcome-filtered table has a Y for
\* that outcome in the full table
FilteredHaveYInFullTable ==
    (probe.fn = "dataUtils" /\ probe.filtered # Null /\ probe.all # Null) =>
        \A d \in SeqRange(Get(probe.merged)) :
            d.ubigeo \in Ubigeos(Get(probe.filtered).table) =>
                FullTableHasY(Get(probe.all), d.ubigeo, Get(probe.filtered).outcome)

----------------------------------------------------------------------------
(* The bounding-box prefilter *)

\* C28: for every pair of polygons polygonsShareEdge returns what counting
\* the matching vertex pairs alone returns (the bounding-box prefilter
\* rejects no pair with 2 matching vertex pairs), and the same when the
\* two polygons are swapped.
PrefilterIsPureOptimisation ==
    BoundaryComputed =>
        \A a, b \in SeqRange(probe.data) :
            /\ polygonsShareEdge(a.polygon, b.polygon) = (sharedCount(a.polygon, b.polygon) >= 2)
            /\ polygonsShareEdge(a.polygon, b.polygon) = polygonsShareEdge(b.polygon, a.polygon)

\* the table processed holds a pair the prefilter rejects and a mita and a
\* non-mita district with 2 matching vertex pairs
PrefilterRejectedAndPassed ==
    /\ BoundaryComputed
    /\ \E a, b \in SeqRange(probe.data) : BBoxesApart(a.polygon, b.polygon)
    /\ \E a, b \in SeqRange(probe.data) :
          /\ a.mita = 1 /\ b.mita = 0
          /\ sharedCount(a.polygon, b.polygon) >= 2
          /\ a.ubigeo \in Get(probe.boundaryUbigeos)

----------------------------------------------------------------------------
(* Transition detection *)

\* the outcome the pass before the one at hand rendered: the outcome the
\* component was mounted with when there was none
PrecedingOutcome == IF pass.path = "none" THEN mainSteps[1].outcome ELSE pass.outcome

\* C22: a render pass takes the outcome-transition path exactly when t >= 1
\* and its outcome differs from the outcome of the pass immediately before
\* it, and after every pass the previous-outcome record holds the outcome
\* of that pass; so an outcome first rendered while t < 1 is never reported.
OutcomeFlagIsEdgeTriggered ==
    [][RenderPass =>
          /\ (pass'.path = "outcome-transition") <=>
                 (pass'.t >= FullScatter /\ pass'.outcome # PrecedingOutcome)
          /\ pass'.outcomeChanged = (pass'.path = "outcome-transition")
          /\ refs'.prevOutcomeRef = pass'.outcome]_vars

\* a pass at t >= 1 has rendered, without reporting it, an outcome other
\* than the initial one that was first rendered while t < 1
OutcomeChangeRenderedBeforeFullScatter ==
    /\ pass.t >= FullScatter
    /\ pass.outcome # mainSteps[1].outcome
    /\ ~pass.outcomeChanged
    /\ props.outcome = pass.outcome
    /\ stepsEntered = 1

\* C23: the phase-changed flag of a render pass is true exactly when t >= 1
\* and the scatter-phase of the pass differs from the recorded phase; the
\* record takes the phase of a pass with t >= 1 and is left unchanged by a
\* pass with t < 1, so it is the phase of the most recent pass with t >= 1
\* (the initial phase if there is none).
PhaseFlagFollowsFullScatterRecord ==
    [][RenderPass =>
          /\ pass'.phaseChanged =
                 (pass'.t >= FullScatter /\ props.scatterPhase # refs.prevScatterPhaseRef)
          /\ refs'.prevScatterPhaseRef =
                 (IF pass'.t >= FullScatter THEN props.scatterPhase
                  ELSE refs.prevScatterPhaseRef)]_vars

\* a pass at t >= 1 has reported a phase change that was made, and
\* rendered, while t < 1
PhaseChangeReportedAtFullScatter ==
    /\ pass.phaseChanged
    /\ pass.t >= FullScatter
    /\ stepsEntered = 1
    /\ props.scatterPhase # mainSteps[1].scatterPhase
    /\ mainSteps[1].morphProgress < FullScatter

----------------------------------------------------------------------------
(* Termination of the animation loops *)

\* the browser keeps delivering display refreshes while a callback is
\* registered: weak fairness of Frame, with ENABLED written out as its guard
FramesKeepArriving ==
    []<>(rafQueue = <<>>) \/ []<><<\E dt \in 1..TicksPerAnimation : Frame(dt)>>_vars

\* React runs the effects it has scheduled: weak fairness of FlushEffects,
\* with ENABLED written out as its guard
EffectsGetFlushed ==
    []<>(~mounted \/ pendingEffects = {}) \/ []<><<FlushEffects>>_vars

\* and the d3 transitions in flight come to their end
SpecLive ==
    /\ Init
    /\ [][Next]_vars
    /\ FramesKeepArriving
    /\ EffectsGetFlushed
    /\ WF_vars(TransitionEnd)

\* loop l has written its target and has no tick registered
LoopAtRest(l) ==
    /\ state[StateOf(l)] = TargetOf(l, props)
    /\ \A i \in 1..Len(rafQueue) : rafQueue[i].loop # l

\* C24: once the targets change no more, every loop of the mounted
\* component eventually has written exactly its target and from then on
\* has no tick registered.
LoopsReachTargetAndStop ==
    <>[](mounted => \A l \in LoopSet : LoopAtRest(l))

\* the morph loop has run from 0 to its target 1 and stopped
MorphLoopFinished ==
    /\ mounted
    /\ stepsEntered >= 1
    /\ mainSteps[1].morphProgress = 0
    /\ props.morphProgress = 10
    /\ LoopAtRest("morph")

----------------------------------------------------------------------------
(* Restart of a loop *)

\* the callbacks registered for loop l that have not ticked yet
FreshCallbacks(q, l) ==
    {[start |-> q[i].start, target |-> q[i].target] :
        i \in {j \in 1..Len(q) : q[j].loop = l /\ q[j].elapsed = 0}}

\* C25 (as stated): a loop that has been (re)started and has not ticked yet
\* starts from the value its continuous value has now, the value most
\* recently written, under every interleaving of ticks, renders and effect
\* runs.
RestartTakesLatestValue ==
    \A l \in LoopSet : \A c \in FreshCallbacks(rafQueue, l) :
        c.start = state[StateOf(l)]

\* the same for the steps in which no tick of the loop writes between the
\* render that scheduled the restart and the restart
RestartWithoutTickTakesLatestValue ==
    [][\A l \in LoopSet :
          state'[StateOf(l)] = state[StateOf(l)] =>
              \A c \in FreshCallbacks(rafQueue', l) \ FreshCallbacks(rafQueue, l) :
                  c.start = state'[StateOf(l)]]_vars

----------------------------------------------------------------------------
(* Independence of the loops *)

\* the callbacks registered for loop l, without their handles
LoopCallbacks(q, l) ==
    {[start |-> q[i].start, target |-> q[i].target, elapsed |-> q[i].elapsed] :
        i \in {j \in 1..Len(q) : q[j].loop = l}}

LoopStarts(q, l) ==
    {[start |-> c.start, target |-> c.target] : c \in LoopCallbacks(q, l)}

\* C26: a step that changes targets schedules the restart of exactly the
\* loops whose own target changed, and leaves the pending tick, the start
\* value, the elapsed time and the value of every loop it does not restart
\* unchanged; no step gives a loop whose effect is not pending a new start
\* value or target.
OnlyOwnLoopRestarts ==
    [][\A l \in LoopSet :
          /\ stepsEntered' # stepsEntered =>
                /\ (l \in pendingEffects') <=> (TargetOf(l, props') # TargetOf(l, props))
                /\ l \notin pendingEffects =>
                      /\ LoopCallbacks(rafQueue', l) = LoopCallbacks(rafQueue, l)
                      /\ state'[StateOf(l)] = state[StateOf(l)]
          /\ l \notin pendingEffects =>
                LoopStarts(rafQueue', l) \subseteq LoopStarts(rafQueue, l)]_vars

\* the morph target has changed, and its loop has been restarted, while the
\* zoom loop is in flight and has kept its start value and elapsed time
MorphRestartedDuringZoom ==
    /\ mounted
    /\ stepsEntered = 2
    /\ pendingEffects = {}
    /\ \E c \in LoopCallbacks(rafQueue, "morph") : c.elapsed = 0 /\ c.target # c.start
    /\ \E c \in LoopCallbacks(rafQueue, "zoom") : c.elapsed > 0 /\ c.target # c.start

----------------------------------------------------------------------------
(* The markers of the scene *)

Markers(sc) == {x \in sc : x.cls = "morph-dot"}

MarkerIds(sc) == {x.key : x \in Markers(sc)}

\* the ids of the markers the last pass alone calls for
IdsOfPass(p) ==
    CASE p.path \in {"none", "map"} -> {}
      [] p.path = "morphing" ->
            IF p.morphT <= DotFadeStart THEN {}
            ELSE Ubigeos(filterScatterData(mergedData, p.outcome))
      [] p.path = "outcome-transition" -> Ubigeos(allScatterData)
      [] OTHER -> Ubigeos(filterScatterData(mergedData, p.outcome))

\* C27: the district ids of the markers in the scene are determined by the
\* last render pass alone and no id occurs twice: none after a map pass or a
\* morphing pass whose morphT is at most the dot-fade start, the ids of the
\* outcome-filtered table after a later morphing pass and after a
\* full-scatter or phase-settle pass, the ids of the full table after an
\* outcome-transition pass.
MarkersFollowLastPass ==
    /\ Cardinality(Markers(scene)) = Cardinality(MarkerIds(scene))
    /\ MarkerIds(scene) = IdsOfPass(pass)

\* an outcome-transition pass has followed a pass that drew fewer markers
OutcomeTransitionAddedMarkers ==
    /\ pass.path = "outcome-transition"
    /\ \E x \in Markers(scene) : x.id % 2 = 0 /\ x.trans # Null /\ x.opacity = 0
    /\ \E x \in Markers(scene) : x.opacity # 0

----------------------------------------------------------------------------
(* Entering and exiting markers *)

\* a render pass through one of the paths creates every new marker inside
\* the plot with opacity 0 and a transition to the opacity the path gives
\* it, and keeps every marker its join drops, fading to 0 before removal
FadeRule(paths) ==
    (RenderPass /\ pass'.path \in paths) =>
        /\ \A x \in Markers(scene') :
              x.id \notin {y.id : y \in Markers(scene)} =>
                 /\ x.cx \in 0..innerWidth
                 /\ x.opacity = 0
                 /\ x.trans # Null
                 /\ Get(x.trans).cy \in 0..innerHeight
                 /\ Get(x.trans).opacity = x.given[2]
        /\ \A x \in Markers(scene) :
              x.key \notin IdsOfPass(pass') =>
                 \E y \in Markers(scene') :
                    /\ y.id = x.id
                    /\ y.trans # Null
                    /\ Get(y.trans).opacity = 0
                    /\ Get(y.trans).remove

\* C21: in the full-scatter, outcome-transition and phase-settle paths an
\* entering marker is created at its clamped final position with opacity 0
\* and then animated to its target opacity, and an exiting marker is faded
\* out before it is removed.
MarkersFadeInAndOut ==
    [][FadeRule({"full-scatter", "outcome-transition", "phase-settle"})]_vars

\* the outcome-transition path alone
MarkersFadeInOutcomeTransition ==
    [][FadeRule({"outcome-transition"})]_vars

----------------------------------------------------------------------------
(* The tooltip and the scene *)

\* C30: a non-null tooltip payload refers to a marker that is still in the
\* scene; no render pass that removes the hovered marker leaves the tooltip
\* showing.
TooltipRefersToSceneElement ==
    (mounted /\ tooltip # Null) =>
        \E x \in Markers(scene) : x.key = Get(tooltip).district.ubigeo

\* a pointer-leave always takes the tooltip down
TooltipClearedByPointerLeave ==
    [][(\E k \in Ubigeos(mergedData) : MouseOut(k)) => tooltip' = Null]_vars

====
